---- MODULE Spec2Model ----
(***************************************************************************)
(* Model of the dcvgan support code: the metric registry of logger.py,     *)
(* real-batch sampling of trainer.py and the batch loop of infer.py.       *)
(*                                                                         *)
(* Representation of Python values:                                        *)
(*   - an OrderedDict is the sequence of its items, in dictionary order;   *)
(*   - a value that may be None is a sequence of length <= 1 (<<>> is      *)
(*     None), a Loss accumulator is the sequence of its elements;          *)
(*   - a float is an exact fraction <<numerator, denominator>> in lowest   *)
(*     terms; timestamps count ticks of 1/TicksPerSecond second;           *)
(*   - tf_writer and the log sink are append-only: the model keeps what    *)
(*     the most recent call added to each.                                 *)
(***************************************************************************)
EXTENDS Integers, Sequences, FiniteSets, TLC

VARIABLES
    metrics,      \* Logger.metrics: sequence of [name, mtype, priority, log_to_tensorboard, value, params]
    now,          \* the clock read by time.time(), in ticks
    emitted,      \* scalars the last call handed to tf_writer.add_scalar
    sink,         \* messages the last call handed to Logger.info
    err,          \* exception raised by the last call ("" when it returned)
    lastOp,       \* the last call and the metric name it was given
    data_enumerater,  \* Trainer.data_enumerater: index of the next item of the enumeration
    data_enumerator,  \* Trainer.data_enumerator: <<>> while the attribute does not exist
    dataloader,   \* Trainer.dataloader: the sequence of batches
    use_cuda,     \* Trainer.use_cuda
    batch,        \* what the last sample_real_batch call returned (<<>> when it raised)
    ncalls,       \* number of sample_real_batch calls made
    n_samples,    \* infer.py args.n_samples
    batchsize,    \* infer.py args.batchsize
    offset,       \* infer.py main: the next value of the loop variable
    geo_dir,      \* file index -> number of times the file was written, geometric stream
    color_dir,    \* file index -> number of times the file was written, color stream
    tasks,        \* the list of delayed calls handed to Parallel
    results,      \* per task position, what its worker returned (<<>> while it has not finished)
    completed,    \* task positions in the order their workers finished
    returned,     \* the list Parallel returned (<<>> while workers are running)
    written,      \* the files the workers wrote: set of [path, video]
    videos,       \* make_video_grid: the argument videos, an array of axes (N, C, T, H, W)
    rows,         \* make_video_grid: the argument rows
    cols,         \* make_video_grid: the argument cols
    grid,         \* what the call of make_video_grid did (<<>> before the call)
    phase,        \* Trainer.train: the phase the loop runs next, "raised" once train has ended
    iterations,   \* Trainer.train: number of passes of the loop begun
    loss_gen,     \* Trainer.train: the local loss_gen (<<>> while unbound)
    loss_idis,    \* Trainer.train: the local loss_idis (<<>> while unbound)
    loss_vdis,    \* Trainer.train: the local loss_vdis (<<>> while unbound)
    train_raised  \* the exception that ended train ("" while it runs)

loggerVars == <<metrics, now, emitted, sink, err, lastOp>>
trainerVars == <<data_enumerater, data_enumerator, dataloader, use_cuda, batch, ncalls>>
inferVars == <<n_samples, batchsize, offset, geo_dir, color_dir>>
parallelVars == <<tasks, results, completed, returned, written>>
gridVars == <<videos, rows, cols, grid>>
trainVars == <<phase, iterations, loss_gen, loss_idis, loss_vdis, train_raised>>
vars == <<metrics, now, emitted, sink, err, lastOp,
          data_enumerater, data_enumerator, dataloader, use_cuda, batch, ncalls,
          n_samples, batchsize, offset, geo_dir, color_dir,
          tasks, results, completed, returned, written,
          videos, rows, cols, grid,
          phase, iterations, loss_gen, loss_idis, loss_vdis, train_raised>>

(***************************************************************************)
(* Bounds of the model.                                                    *)
(***************************************************************************)
MaxLossLen == 2
MaxTime == 1
MaxBatches == 3
MaxSamples == 8
MaxBatchsize == 4
MaxTasks == 4
MaxGrid == 2
MaxSide == 2

(***************************************************************************)
(* logger.py: MetricType                                                   *)
(***************************************************************************)
Integer == 1
Float == 2
Loss == 3
Time == 4
mtype_list == {Integer, Float, Loss, Time}

TicksPerSecond == 2

\* Names given to define/update/log by the callers of the model.
MetricNames == {"iteration", "loss"}
\* Names given to tf_log_scalars and log as x-axis metric.
XAxisArgs == {"iteration", "loss", "elapsed_time"}
PriorityArgs == {99, 100}
\* The define calls made after construction: "loss" with every type,
\* priority and flag, the built-in "iteration" turned into a mirrored
\* metric of the priority of "epoch", and a call with 5, which is not a
\* member of MetricType.
DefineArgs ==
    ({"loss"} \X mtype_list \X PriorityArgs \X BOOLEAN)
    \cup {<<"iteration", Integer, 100, TRUE>>, <<"loss", 5, 99, TRUE>>}
\* Values given to update.
ValueArgs == {2, 4}

None == <<>>
Some(v) == <<v>>

(***************************************************************************)
(* Exact fractions.                                                        *)
(***************************************************************************)
RECURSIVE Gcd(_, _)
Gcd(a, b) == IF b = 0 THEN a ELSE Gcd(b, a % b)

Abs(a) == IF a < 0 THEN -a ELSE a

Frac(n, d) ==
    LET g == Gcd(Abs(n), d)
    IN  IF n = 0 THEN <<0, 1>> ELSE <<n \div g, d \div g>>

Whole(v) == <<v, 1>>

RECURSIVE SumSeq(_)
SumSeq(s) == IF s = <<>> THEN 0 ELSE Head(s) + SumSeq(Tail(s))

\* sum(m.value) / len(m.value)
Mean(list) == Frac(SumSeq(list), Len(list))

(***************************************************************************)
(* String formatting.                                                      *)
(***************************************************************************)
RECURSIVE Spaces(_)
Spaces(n) == IF n <= 0 THEN "" ELSE " " \o Spaces(n - 1)

\* "{:>15} ".format(s)
Column(s) == Spaces(15 - Len(s)) \o s \o " "

Digits2(n) == IF n < 10 THEN "0" \o ToString(n) ELSE ToString(n)
Digits3(n) == IF n < 10 THEN "00" \o ToString(n)
              ELSE IF n < 100 THEN "0" \o ToString(n) ELSE ToString(n)

\* "{:0.3f}".format(f) for the fraction f: the nearest multiple of 1/1000,
\* an exact tie going to the even neighbour.
FormatF3(f) ==
    LET n == Abs(f[1])
        d == f[2]
        q == (n * 1000) \div d
        r == (n * 1000) % d
        m == IF 2 * r > d THEN q + 1
             ELSE IF 2 * r = d THEN q + (q % 2)
             ELSE q
    IN  (IF f[1] < 0 THEN "-" ELSE "") \o ToString(m \div 1000) \o "." \o Digits3(m % 1000)

\* int(x) for x a number of ticks: whole seconds, truncated towards zero.
IntSeconds(ticks) ==
    IF ticks >= 0 THEN ticks \div TicksPerSecond
    ELSE -((-ticks) \div TicksPerSecond)

\* str(datetime.timedelta(seconds=s))
TimedeltaStr(s) ==
    LET days == s \div 86400
        secs == s % 86400
        hms  == ToString(secs \div 3600) \o ":" \o Digits2((secs % 3600) \div 60)
                \o ":" \o Digits2(secs % 60)
    IN  IF days = 0 THEN hms
        ELSE ToString(days) \o (IF Abs(days) = 1 THEN " day, " ELSE " days, ") \o hms

(***************************************************************************)
(* logger.py: the registry.                                                *)
(***************************************************************************)
metric_keys(ms) == [i \in 1..Len(ms) |-> ms[i].name]

Registered(ms) == {ms[i].name : i \in 1..Len(ms)}

IndexOf(ms, name) == CHOOSE i \in 1..Len(ms) : ms[i].name = name

\* self.metrics[name]
Lookup(ms, name) == ms[IndexOf(ms, name)]

\* Metric.__init__ followed by the initial value define gives it.
NewMetric(name, mtype, priority, tensorboard, t) ==
    [name |-> name,
     mtype |-> mtype,
     priority |-> priority,
     log_to_tensorboard |-> tensorboard,
     value |-> IF mtype \in {Integer, Float} THEN None
               ELSE IF mtype = Loss THEN <<>>
               ELSE Some(0),
     params |-> IF mtype = Time THEN Some(t) ELSE <<>>]

\* self.metrics[name] = metric: an existing key keeps its position, a new
\* key goes to the end.
SetItem(ms, metric) ==
    IF metric.name \in Registered(ms)
    THEN [ms EXCEPT ![IndexOf(ms, metric.name)] = metric]
    ELSE Append(ms, metric)

\* Variant of InsertByPriority that is not stable: m goes in front of the
\* elements of its own priority.
RECURSIVE InsertByPriorityUnstable(_, _)
InsertByPriorityUnstable(sorted, m) ==
    IF sorted = <<>> THEN <<m>>
    ELSE IF Head(sorted).priority > m.priority
         THEN <<Head(sorted)>> \o InsertByPriorityUnstable(Tail(sorted), m)
         ELSE <<m>> \o sorted

\* One step of a stable descending sort: m goes behind every element whose
\* priority is at least its own.
RECURSIVE InsertByPriority(_, _)
InsertByPriority(sorted, m) ==
    IF sorted = <<>> THEN <<m>>
    ELSE IF Head(sorted).priority >= m.priority
         THEN <<Head(sorted)>> \o InsertByPriority(Tail(sorted), m)
         ELSE <<m>> \o sorted

\* sorted(items, key=lambda m: m[1].priority, reverse=True)
RECURSIVE SortByPriority(_)
SortByPriority(ms) ==
    IF ms = <<>> THEN <<>>
    ELSE InsertByPriority(SortByPriority(SubSeq(ms, 1, Len(ms) - 1)), ms[Len(ms)])

DefineResult(ms, name, mtype, priority, tensorboard, t) ==
    SortByPriority(SetItem(ms, NewMetric(name, mtype, priority, tensorboard, t)))

\* Variant of UpdatedMetric in which a Loss metric keeps the last value only.
UpdatedMetricReplacing(m, value) ==
    IF m.mtype \in {Integer, Float, Loss} THEN [m EXCEPT !.value = Some(value)]
    ELSE [m EXCEPT !.value = Some(value - m.params[1])]

\* The metric after update(name, value).
UpdatedMetric(m, value) ==
    IF m.mtype \in {Integer, Float} THEN [m EXCEPT !.value = Some(value)]
    ELSE IF m.mtype = Loss THEN [m EXCEPT !.value = Append(m.value, value)]
    ELSE [m EXCEPT !.value = Some(value - m.params[1])]

\* Variant of UpdateResult in which an unknown name is registered on the fly.
UpdateResultAdding(ms, name, value) ==
    IF name \notin Registered(ms)
    THEN [metrics |-> Append(ms, [NewMetric(name, Integer, 0, TRUE, 0)
                                     EXCEPT !.value = Some(value)]),
          err |-> ""]
    ELSE [metrics |-> [ms EXCEPT ![IndexOf(ms, name)] =
                          UpdatedMetric(ms[IndexOf(ms, name)], value)],
          err |-> ""]

\* update(name, value): the registry after the call and the exception raised;
\* self.metrics[name] raises KeyError for a name that is not a key.
UpdateResult(ms, name, value) ==
    IF name \notin Registered(ms)
    THEN [metrics |-> ms, err |-> "KeyError"]
    ELSE [metrics |-> [ms EXCEPT ![IndexOf(ms, name)] =
                          UpdatedMetric(ms[IndexOf(ms, name)], value)],
          err |-> ""]

\* The accumulator of a Loss metric has room for one more value.
HasRoom(ms, name) ==
    (name \in Registered(ms) /\ Lookup(ms, name).mtype = Loss)
        => Len(Lookup(ms, name).value) < MaxLossLen

\* Variant of ClearedMetric in which a Time metric restarts from zero.
ClearedMetricResettingTime(m) ==
    IF m.mtype \in {Integer, Float} THEN [m EXCEPT !.value = None]
    ELSE IF m.mtype = Loss THEN [m EXCEPT !.value = <<>>]
    ELSE [m EXCEPT !.value = Some(0)]

\* The metric after clear().
ClearedMetric(m) ==
    IF m.mtype \in {Integer, Float} THEN [m EXCEPT !.value = None]
    ELSE IF m.mtype = Loss THEN [m EXCEPT !.value = <<>>]
    ELSE m

\* Variant of ClearResult that empties the registry itself.
ClearResultEmptying(ms) == SubSeq(ms, 1, 0)

ClearResult(ms) == [i \in 1..Len(ms) |-> ClearedMetric(ms[i])]

\* The string _log appends to log_strings for one metric.
RenderValue(m) ==
    IF m.mtype = Integer
    THEN IF m.value = None THEN "-" ELSE ToString(m.value[1])
    ELSE IF m.mtype = Float
    THEN IF m.value = None THEN "-" ELSE FormatF3(Whole(m.value[1]))
    ELSE IF m.mtype = Loss
    THEN IF Len(m.value) = 0 THEN " - " ELSE FormatF3(Mean(m.value))
    ELSE TimedeltaStr(IntSeconds(m.value[1]))

\* Variant of LogStrings that appends nothing for an absent scalar.
RECURSIVE LogStringsSkippingAbsent(_)
LogStringsSkippingAbsent(ms) ==
    IF ms = <<>> THEN <<>>
    ELSE IF Head(ms).mtype \in {Integer, Float} /\ Head(ms).value = None
    THEN LogStringsSkippingAbsent(Tail(ms))
    ELSE <<RenderValue(Head(ms))>> \o LogStringsSkippingAbsent(Tail(ms))

\* log_strings of _log: one string appended per item of self.metrics
RECURSIVE LogStrings(_)
LogStrings(ms) ==
    IF ms = <<>> THEN <<>>
    ELSE <<RenderValue(Head(ms))>> \o LogStrings(Tail(ms))

RECURSIVE JoinColumns(_)
JoinColumns(strs) ==
    IF strs = <<>> THEN "" ELSE Column(Head(strs)) \o JoinColumns(Tail(strs))

\* the message _log hands to info
RenderLine(ms) == JoinColumns(LogStrings(ms))

\* the message print_header hands to info
RenderHeader(ms) == JoinColumns(metric_keys(ms))

(***************************************************************************)
(* logger.py: tf_log_scalars.                                              *)
(***************************************************************************)
\* The loop over self.metrics.items(), from item i on.  value is the local
\* variable of that name: None while nothing was assigned to it.  The loop
\* assigns it in the Integer/Float and the Loss branch only; a Time metric
\* reaches add_scalar with whatever the variable holds.
RECURSIVE ScalarLoop(_, _, _, _, _)
ScalarLoop(ms, i, step, value, out) ==
    IF i > Len(ms) THEN [emitted |-> out, err |-> ""]
    ELSE LET metric == ms[i]
         IN  IF ~metric.log_to_tensorboard
             THEN ScalarLoop(ms, i + 1, step, value, out)
             ELSE IF metric.mtype \in {Integer, Float}
             THEN IF metric.value = None
                  THEN ScalarLoop(ms, i + 1, step, value, out)
                  ELSE ScalarLoop(ms, i + 1, step, Some(Whole(metric.value[1])),
                           Append(out, [tag |-> metric.name,
                                        value |-> Whole(metric.value[1]),
                                        step |-> step]))
             ELSE IF metric.mtype = Loss
             THEN IF Len(metric.value) = 0
                  THEN ScalarLoop(ms, i + 1, step, value, out)
                  ELSE ScalarLoop(ms, i + 1, step, Some(Mean(metric.value)),
                           Append(out, [tag |-> metric.name,
                                        value |-> Mean(metric.value),
                                        step |-> step]))
             ELSE IF value = None
                  THEN [emitted |-> out, err |-> "UnboundLocalError"]
                  ELSE ScalarLoop(ms, i + 1, step, value,
                           Append(out, [tag |-> metric.name,
                                        value |-> value[1],
                                        step |-> step]))

\* Variant of TfLogScalarsResult without the check of the type of the
\* x-axis metric.
TfLogScalarsResultUntyped(ms, x_axis_metric) ==
    IF x_axis_metric \notin Registered(ms)
    THEN [emitted |-> <<>>, err |-> "Exception: No such metric"]
    ELSE ScalarLoop(ms, 1, Lookup(ms, x_axis_metric).value, None, <<>>)

\* tf_log_scalars(x_axis_metric): the scalars added and the exception raised.
TfLogScalarsResult(ms, x_axis_metric) ==
    IF x_axis_metric \notin Registered(ms)
    THEN [emitted |-> <<>>, err |-> "Exception: No such metric"]
    ELSE IF Lookup(ms, x_axis_metric).mtype \notin {Integer, Float}
    THEN [emitted |-> <<>>, err |-> "Exception: Invalid metric type"]
    ELSE ScalarLoop(ms, 1, Lookup(ms, x_axis_metric).value, None, <<>>)

(***************************************************************************)
(* logger.py: the operations of Logger.                                    *)
(***************************************************************************)
Op(op, name) == [op |-> op, name |-> name]

\* Logger.__init__ at time t: the three built-in metrics.
InitialMetrics(t) ==
    DefineResult(
        DefineResult(
            DefineResult(<<>>, "epoch", Integer, 100, FALSE, t),
            "iteration", Integer, 99, FALSE, t),
        "elapsed_time", Time, -1, FALSE, t)

Define(name, mtype, priority, tensorboard) ==
    /\ lastOp' = Op("define", name)
    /\ emitted' = <<>>
    /\ sink' = <<>>
    /\ IF mtype \notin mtype_list
       THEN /\ err' = "Exception: mtype is invalid"
            /\ UNCHANGED metrics
       ELSE /\ err' = ""
            /\ metrics' = DefineResult(metrics, name, mtype, priority, tensorboard, now)
    /\ UNCHANGED now

Update(name, value) ==
    /\ lastOp' = Op("update", name)
    /\ emitted' = <<>>
    /\ sink' = <<>>
    /\ HasRoom(metrics, name)
    /\ metrics' = UpdateResult(metrics, name, value).metrics
    /\ err' = UpdateResult(metrics, name, value).err
    /\ UNCHANGED now

Clear ==
    /\ lastOp' = Op("clear", "")
    /\ emitted' = <<>>
    /\ sink' = <<>>
    /\ err' = ""
    /\ metrics' = ClearResult(metrics)
    /\ UNCHANGED now

PrintHeader ==
    /\ lastOp' = Op("print_header", "")
    /\ emitted' = <<>>
    /\ sink' = <<RenderHeader(metrics)>>
    /\ err' = ""
    /\ UNCHANGED <<metrics, now>>

TfLogScalars(x_axis_metric) ==
    /\ lastOp' = Op("tf_log_scalars", x_axis_metric)
    /\ emitted' = TfLogScalarsResult(metrics, x_axis_metric).emitted
    /\ err' = TfLogScalarsResult(metrics, x_axis_metric).err
    /\ sink' = <<>>
    /\ UNCHANGED <<metrics, now>>

\* log(x_axis_metric): update("elapsed_time", time.time()), then
\* tf_log_scalars, then _log; an exception ends the call where it is raised.
Log(x_axis_metric) ==
    /\ HasRoom(metrics, "elapsed_time")
    /\ LET updated == UpdateResult(metrics, "elapsed_time", now)
           tf == TfLogScalarsResult(updated.metrics, x_axis_metric)
       IN  /\ metrics' = updated.metrics
           /\ IF updated.err # ""
              THEN /\ err' = updated.err
                   /\ emitted' = <<>>
                   /\ sink' = <<>>
              ELSE /\ err' = tf.err
                   /\ emitted' = tf.emitted
                   /\ sink' = IF tf.err = "" THEN <<RenderLine(updated.metrics)>> ELSE <<>>
    /\ lastOp' = Op("log", x_axis_metric)
    /\ UNCHANGED now

\* Time passes between calls.
Tick ==
    /\ now < MaxTime
    /\ now' = now + 1
    /\ UNCHANGED <<metrics, emitted, sink, err, lastOp>>

(***************************************************************************)
(* trainer.py: Trainer.sample_real_batch.                                  *)
(***************************************************************************)
\* Contents of a batch of the data source.
BatchArgs == {0, 1}

MaxCalls == MaxBatches + 2

Dataloaders == UNION {[1..n -> BatchArgs] : n \in 1..MaxBatches}

\* Trainer.__init__: enumerate(dataloader) is bound to data_enumerater.
TrainerInit ==
    /\ dataloader \in Dataloaders
    /\ use_cuda \in BOOLEAN
    /\ data_enumerater = 1
    /\ data_enumerator = None
    /\ batch = [raised |-> "", value |-> None]
    /\ ncalls = 0

\* next(self.data_enumerater) reads the attribute __init__ set; the restart
\* at the last batch binds a fresh enumeration to self.data_enumerator.
SampleRealBatch ==
    /\ ncalls < MaxCalls
    /\ ncalls' = ncalls + 1
    /\ IF data_enumerater > Len(dataloader)
       THEN /\ batch' = [raised |-> "StopIteration", value |-> None]
            /\ UNCHANGED <<data_enumerater, data_enumerator>>
       ELSE LET batch_idx == data_enumerater - 1
                item == dataloader[data_enumerater]
            IN  /\ data_enumerater' = data_enumerater + 1
                /\ data_enumerator' = IF batch_idx = Len(dataloader) - 1
                                      THEN Some(1)
                                      ELSE data_enumerator
                /\ batch' = [raised |-> "",
                             value |-> Some([data |-> item,
                                             device |-> IF use_cuda THEN "cuda" ELSE "cpu",
                                             dtype |-> "float"])]
    /\ UNCHANGED <<dataloader, use_cuda>>

(***************************************************************************)
(* infer.py: the generation loop of main, and util.generate_samples.       *)
(***************************************************************************)
\* range(0, num, step) as the sequence of its values.
RangeLen(num, step) == (num + step - 1) \div step

\* len(xg) of generate_samples(ggen, cgen, num, batchsize): one batch of
\* batchsize videos per value of range(0, num, batchsize), concatenated and
\* cut to the first num.
GenerateSamplesLen(num, bs) ==
    LET total == RangeLen(num, bs) * bs
    IN  IF total < num THEN total ELSE num

\* dataio.write_videos_pararell(videos, paths) with paths the indices
\* first .. first + count - 1: every path is written once.
WriteVideos(dir, first, count) ==
    [i \in DOMAIN dir \cup (first..(first + count - 1)) |->
        (IF i \in DOMAIN dir THEN dir[i] ELSE 0)
        + (IF i \in first..(first + count - 1) THEN 1 ELSE 0)]

NoFiles == [i \in {} |-> 0]

InferInit ==
    /\ n_samples \in 1..MaxSamples
    /\ batchsize \in 1..MaxBatchsize
    /\ offset = 0
    /\ geo_dir = NoFiles
    /\ color_dir = NoFiles

\* for offset in range(0, args.n_samples, args.batchsize) has ended
MainDone == offset >= n_samples

\* One iteration of the loop of main.
MainIteration ==
    /\ ~MainDone
    /\ LET len == GenerateSamplesLen(batchsize, batchsize)
       IN  /\ geo_dir' = WriteVideos(geo_dir, offset, len)
           /\ color_dir' = WriteVideos(color_dir, offset, len)
    /\ offset' = offset + batchsize
    /\ UNCHANGED <<n_samples, batchsize>>

(***************************************************************************)
(* joblib.Parallel as called by util.geometric_info_in_color_format and by *)
(* dataio.write_videos_pararell: one delayed call per input, each run by   *)
(* an independent worker process; the workers finish in any order and      *)
(* Parallel returns one result per call, in the order of the list of       *)
(* calls.  An input is represented by its tag: its python index.           *)
(***************************************************************************)
\* A batch of n inputs, the input of python index i tagged i.
TaggedBatch(n) == [p \in 1..n |-> p - 1]

\* visualize_optical_flow(flow_video): the color video of one flow video.
VisualizeOpticalFlow(flow_video) == [rgb |-> flow_video.flow]

\* delayed(fn)(args)
Delayed(fn, args) == [fn |-> fn, args |-> args]

\* [delayed(visualize_optical_flow)(flow) for flow in xg], xg transposed to
\* (B, T, H, W, C) and scaled by H.
FlowTasks(xg) ==
    [p \in DOMAIN xg |-> Delayed("visualize_optical_flow", <<[flow |-> xg[p]]>>)]

\* "{:06d}.mp4".format(k)
Mp4Name(k) ==
    (IF k < 10 THEN "00000"
     ELSE IF k < 100 THEN "0000"
     ELSE IF k < 1000 THEN "000"
     ELSE IF k < 10000 THEN "00"
     ELSE IF k < 100000 THEN "0" ELSE "") \o ToString(k) \o ".mp4"

\* [dir / "{:06d}.mp4".format(offset + i) for i in range(len(xg))]
Paths(off, n) == [p \in 1..n |-> Mp4Name(off + (p - 1))]

\* dataio.write_videos_pararell(vids, paths): one write call per pair of
\* a video and the path of the same position.
WriteTasks(vids, paths) ==
    [p \in DOMAIN vids |-> Delayed("write_video", <<[video |-> vids[p]], paths[p]>>)]

\* What the call of a task returns to Parallel.
Call(task) ==
    IF task.fn = "visualize_optical_flow"
    THEN VisualizeOpticalFlow(task.args[1])
    ELSE [rgb |-> None]

\* A worker that stores its result in the slot of another task: the
\* first slot still empty, so that results end up in completion order.
StoreAtNextFree(rs, p, v) ==
    LET free == {q \in DOMAIN rs : rs[q] = None}
        first == CHOOSE q \in free : \A r \in free : q <= r
    IN  [rs EXCEPT ![first] = Some(v)]

\* Parallel keeps the result of a call at the position of the call.
Store(rs, p, v) == [rs EXCEPT ![p] = Some(v)]

\* The file system after a worker wrote video to path.
WriteVideo(files, video, path) ==
    {f \in files : f.path # path} \cup {[path |-> path, video |-> video]}

Finished == {completed[k] : k \in DOMAIN completed}

\* The call lists of one iteration of infer.main of batch size n at loop
\* value off: the flow conversion inside generate_samples, or the writes
\* of the batch.
ParallelInit(n, off) ==
    /\ tasks \in {FlowTasks(TaggedBatch(n)),
                  WriteTasks(TaggedBatch(n), Paths(off, n))}
    /\ results = [p \in 1..n |-> None]
    /\ completed = <<>>
    /\ returned = None
    /\ written = {}

\* The worker of the call at position p finishes.
WorkerFinishes(p) ==
    /\ returned = None
    /\ p \in DOMAIN tasks
    /\ p \notin Finished
    /\ results' = Store(results, p, Call(tasks[p]))
    /\ written' = IF tasks[p].fn = "write_video"
                  THEN WriteVideo(written, tasks[p].args[1], tasks[p].args[2])
                  ELSE written
    /\ completed' = Append(completed, p)
    /\ UNCHANGED <<tasks, returned>>

\* Every worker has finished: Parallel returns the list of results, which
\* np.stack turns into the batch.
ParallelReturns ==
    /\ returned = None
    /\ Len(completed) = Len(tasks)
    /\ returned' = Some([p \in DOMAIN tasks |-> results[p][1]])
    /\ UNCHANGED <<tasks, results, completed, written>>

(***************************************************************************)
(* util.py: make_video_grid.  A numpy array is its shape and the sequence  *)
(* of its items in C order (last axis fastest); an index is the sequence   *)
(* of its coordinates, counted from 0.                                     *)
(***************************************************************************)
NdArray(shape, flat) == [shape |-> shape, flat |-> flat]

RECURSIVE Prod(_)
Prod(shape) == IF shape = <<>> THEN 1 ELSE Head(shape) * Prod(Tail(shape))

\* The position, counted from 0, of index idx in the C order of shape.
RECURSIVE Ravel(_, _)
Ravel(idx, shape) ==
    IF shape = <<>> THEN 0
    ELSE LET n == Len(shape)
         IN  Ravel(SubSeq(idx, 1, n - 1), SubSeq(shape, 1, n - 1)) * shape[n] + idx[n]

\* The index at position pos of the C order of shape.
RECURSIVE Unravel(_, _)
Unravel(pos, shape) ==
    IF shape = <<>> THEN <<>>
    ELSE LET n == Len(shape)
         IN  Append(Unravel(pos \div shape[n], SubSeq(shape, 1, n - 1)), pos % shape[n])

\* a[idx]
Item(a, idx) == a.flat[Ravel(idx, a.shape) + 1]

\* An array of the permuted shape that keeps the C order of a: what
\* a.reshape would give where a.transpose is meant.
TransposeAsReshape(a, axes) ==
    NdArray([k \in DOMAIN axes |-> a.shape[axes[k] + 1]], a.flat)

\* a.transpose(*axes): axis k of the result is axis axes[k] of a.
Transpose(a, axes) ==
    LET shape == [k \in DOMAIN axes |-> a.shape[axes[k] + 1]]
        Source(idx) ==
            [j \in DOMAIN axes |-> idx[CHOOSE k \in DOMAIN axes : axes[k] + 1 = j]]
    IN  NdArray(shape,
                [f \in 1..Prod(shape) |-> Item(a, Source(Unravel(f - 1, shape)))])

\* a.reshape(*shape): the items of a in C order, under the new shape.
Reshape(a, shape) == NdArray(shape, a.flat)

\* a[None]
NewAxis(a) == NdArray(<<1>> \o a.shape, a.flat)

\* make_video_grid(videos, rows, cols): the exception raised and the value
\* returned.
MakeVideoGrid(v, r, c) ==
    LET N == v.shape[1]
        C == v.shape[2]
        T == v.shape[3]
        H == v.shape[4]
        W == v.shape[5]
    IN  IF N # r * c
        THEN [raised |-> "AssertionError", value |-> None]
        ELSE LET t1 == Transpose(v, <<1, 2, 0, 3, 4>>)
                 r1 == Reshape(t1, <<C, T, r, c, H, W>>)
                 t2 == Transpose(r1, <<0, 1, 2, 4, 3, 5>>)
                 r2 == Reshape(t2, <<C, T, r * H, c * W>>)
             IN  [raised |-> "", value |-> Some(NewAxis(r2))]

\* A batch of videos of the given shape, every pixel holding its own
\* index <<n, c, t, h, w>>.
TaggedVideos(shape) ==
    NdArray(shape, [f \in 1..Prod(shape) |-> Unravel(f - 1, shape)])

GridInit ==
    /\ rows \in 1..MaxGrid
    /\ cols \in 1..MaxGrid
    /\ \E N \in 1..(MaxGrid * MaxGrid), C \in 1..MaxSide, T \in 1..MaxSide,
          H \in 1..MaxSide, W \in 1..MaxSide :
          videos = TaggedVideos(<<N, C, T, H, W>>)
    /\ grid = None

MakeVideoGridCall ==
    /\ grid = None
    /\ grid' = Some(MakeVideoGrid(videos, rows, cols))
    /\ UNCHANGED <<videos, rows, cols>>

(***************************************************************************)
(* trainer.py: Trainer.train.  One action per phase of the loop body; the  *)
(* networks, optimizers and losses are represented by the loss values the  *)
(* phases compute.                                                         *)
(***************************************************************************)
LossNames == <<"loss_gen", "loss_idis", "loss_vdis">>

\* The methods class Logger defines.
LoggerMethods ==
    {"__init__", "new_logging_module", "_log", "log", "define", "metric_keys",
     "clear", "update", "print_header", "tf_log_scalars", "tf_log_histgram",
     "tf_log_image", "tf_log_video", "tf_log_hparams", "info", "debug",
     "warning", "error", "critical"}

\* The registry of a logger on which the three losses were defined with
\* the default priority and flag after construction.
MetricsWithLosses ==
    DefineResult(
        DefineResult(
            DefineResult(InitialMetrics(0), "loss_gen", Loss, 0, TRUE, 0),
            "loss_idis", Loss, 0, TRUE, 0),
        "loss_vdis", Loss, 0, TRUE, 0)

\* The locals of train on entry to the loop.
TrainInit ==
    /\ phase = "generator"
    /\ iterations = 0
    /\ loss_gen = None
    /\ loss_idis = None
    /\ loss_vdis = None
    /\ train_raised = ""

\* update(name, value) for the three losses in turn, stopping at the first
\* call that raises.
RECURSIVE UpdateLosses(_, _, _)
UpdateLosses(ms, values, i) ==
    IF i > Len(LossNames) THEN [metrics |-> ms, err |-> "", last |-> LossNames[i - 1]]
    ELSE LET u == UpdateResult(ms, LossNames[i], values[i])
         IN  IF u.err # ""
             THEN [metrics |-> u.metrics, err |-> u.err, last |-> LossNames[i]]
             ELSE UpdateLosses(u.metrics, values, i + 1)

\* phase generator
PhaseGenerator ==
    /\ phase = "generator"
    /\ iterations' = iterations + 1
    /\ \E value \in ValueArgs : loss_gen' = Some(value)
    /\ phase' = "discriminator"
    /\ UNCHANGED <<loss_idis, loss_vdis, train_raised>>

\* phase discriminator: the real batch comes from sample_real_batch.
PhaseDiscriminator ==
    /\ phase = "discriminator"
    /\ SampleRealBatch
    /\ IF batch'.raised # ""
       THEN /\ train_raised' = batch'.raised
            /\ phase' = "raised"
            /\ UNCHANGED <<loss_idis, loss_vdis>>
       ELSE /\ \E value \in ValueArgs : loss_idis' = Some(value)
            /\ \E value \in ValueArgs : loss_vdis' = Some(value)
            /\ phase' = "logging"
            /\ UNCHANGED train_raised
    /\ UNCHANGED <<iterations, loss_gen>>

\* logging: three update calls, then logger.next_iter().
PhaseLogging ==
    /\ phase = "logging"
    /\ LET u == UpdateLosses(metrics, <<loss_gen[1], loss_idis[1], loss_vdis[1]>>, 1)
       IN  /\ metrics' = u.metrics
           /\ err' = u.err
           /\ lastOp' = Op("update", u.last)
           /\ IF u.err # ""
              THEN /\ train_raised' = u.err
                   /\ phase' = "raised"
              ELSE IF "next_iter" \notin LoggerMethods
              THEN /\ train_raised' = "AttributeError"
                   /\ phase' = "raised"
              ELSE /\ train_raised' = ""
                   /\ phase' = "generator"
    /\ emitted' = <<>>
    /\ sink' = <<>>
    /\ UNCHANGED <<now, iterations, loss_gen, loss_idis, loss_vdis>>

(***************************************************************************)
(* Specifications.                                                         *)
(***************************************************************************)
LoggerInit ==
    /\ now = 0
    /\ metrics = InitialMetrics(0)
    /\ emitted = <<>>
    /\ sink = <<>>
    /\ err = ""
    /\ lastOp = Op("__init__", "")

\* The components a specification does not exercise stay as constructed.
TrainerIdle ==
    /\ dataloader = <<0>>
    /\ use_cuda = FALSE
    /\ data_enumerater = 1
    /\ data_enumerator = None
    /\ batch = [raised |-> "", value |-> None]
    /\ ncalls = 0

InferIdle ==
    /\ n_samples = 1
    /\ batchsize = 1
    /\ offset = 0
    /\ geo_dir = NoFiles
    /\ color_dir = NoFiles

ParallelIdle ==
    /\ tasks = <<>>
    /\ results = <<>>
    /\ completed = <<>>
    /\ returned = None
    /\ written = {}

GridIdle ==
    /\ videos = NdArray(<<1, 1, 1, 1, 1>>, <<0>>)
    /\ rows = 1
    /\ cols = 1
    /\ grid = None

TrainIdle == TrainInit

Init == LoggerInit /\ TrainerIdle /\ InferIdle /\ ParallelIdle /\ GridIdle /\ TrainIdle

Next ==
    \/ \E d \in DefineArgs :
          Define(d[1], d[2], d[3], d[4]) /\ UNCHANGED <<trainerVars, inferVars, parallelVars, gridVars, trainVars>>
    \/ \E name \in MetricNames, value \in ValueArgs :
          Update(name, value) /\ UNCHANGED <<trainerVars, inferVars, parallelVars, gridVars, trainVars>>
    \/ Clear /\ UNCHANGED <<trainerVars, inferVars, parallelVars, gridVars, trainVars>>
    \/ PrintHeader /\ UNCHANGED <<trainerVars, inferVars, parallelVars, gridVars, trainVars>>
    \/ \E x \in XAxisArgs : TfLogScalars(x) /\ UNCHANGED <<trainerVars, inferVars, parallelVars, gridVars, trainVars>>
    \/ \E x \in XAxisArgs : Log(x) /\ UNCHANGED <<trainerVars, inferVars, parallelVars, gridVars, trainVars>>
    \/ Tick /\ UNCHANGED <<trainerVars, inferVars, parallelVars, gridVars, trainVars>>

Spec == Init /\ [][Next]_vars

InitTrainer == LoggerInit /\ TrainerInit /\ InferIdle /\ ParallelIdle /\ GridIdle /\ TrainIdle

NextTrainer == SampleRealBatch /\ UNCHANGED <<loggerVars, inferVars, parallelVars, gridVars, trainVars>>

SpecTrainer == InitTrainer /\ [][NextTrainer]_vars

InitInfer == LoggerInit /\ TrainerIdle /\ InferInit /\ ParallelIdle /\ GridIdle /\ TrainIdle

NextInfer == MainIteration /\ UNCHANGED <<loggerVars, trainerVars, parallelVars, gridVars, trainVars>>

SpecInfer == InitInfer /\ [][NextInfer]_vars

InitParallel ==
    /\ LoggerInit /\ TrainerIdle
    /\ n_samples = 2 * MaxTasks
    /\ batchsize \in 1..MaxTasks
    /\ offset \in {0, batchsize}
    /\ geo_dir = NoFiles
    /\ color_dir = NoFiles
    /\ ParallelInit(batchsize, offset)
    /\ GridIdle
    /\ TrainIdle

NextParallel ==
    \/ \E p \in 1..MaxTasks :
          WorkerFinishes(p) /\ UNCHANGED <<loggerVars, trainerVars, inferVars, gridVars, trainVars>>
    \/ ParallelReturns /\ UNCHANGED <<loggerVars, trainerVars, inferVars, gridVars, trainVars>>

SpecParallel == InitParallel /\ [][NextParallel]_vars

InitGrid ==
    LoggerInit /\ TrainerIdle /\ InferIdle /\ ParallelIdle /\ GridInit /\ TrainIdle

NextGrid ==
    MakeVideoGridCall /\ UNCHANGED <<loggerVars, trainerVars, inferVars, parallelVars, trainVars>>

SpecGrid == InitGrid /\ [][NextGrid]_vars

\* train is entered with the logger __init__ built, on which nothing or
\* the three losses have been defined since.
InitTrain ==
    /\ now = 0
    /\ metrics \in {InitialMetrics(0), MetricsWithLosses}
    /\ emitted = <<>>
    /\ sink = <<>>
    /\ err = ""
    /\ lastOp = Op("__init__", "")
    /\ TrainerInit /\ InferIdle /\ ParallelIdle /\ GridIdle /\ TrainInit

NextTrain ==
    \/ PhaseGenerator /\ UNCHANGED <<loggerVars, trainerVars, inferVars, parallelVars, gridVars>>
    \/ PhaseDiscriminator /\ UNCHANGED <<loggerVars, inferVars, parallelVars, gridVars>>
    \/ PhaseLogging /\ UNCHANGED <<trainerVars, inferVars, parallelVars, gridVars>>

SpecTrain == InitTrain /\ [][NextTrain]_vars

(***************************************************************************)
(* Properties.                                                             *)
(***************************************************************************)
LossMetrics(ms) == {i \in 1..Len(ms) : ms[i].mtype = Loss}

\* s is the decimal notation, with 3 decimals, of a multiple of 1/1000 that
\* lies within 1/2000 of the mean of the values of list.
IsMeanTo3Decimals(s, list) ==
    LET sum == SumSeq(list)
        n == Len(list)
        q == (1000 * sum) \div n
    IN  \E k \in {q, q + 1} :
           /\ 2 * Abs(1000 * sum - k * n) <= n
           /\ s = ToString(k \div 1000) \o "." \o Digits3(k % 1000)

\* update(name, value) on a registered Loss metric appends value, and the
\* metric then renders as the mean of all accumulated values.
LossUpdateIsAdditive ==
    \A name \in MetricNames, value \in ValueArgs :
       (/\ Update(name, value)
        /\ name \in Registered(metrics)
        /\ Lookup(metrics, name).mtype = Loss)
       => /\ name \in Registered(metrics')
          /\ Lookup(metrics', name).value = Append(Lookup(metrics, name).value, value)
          /\ IsMeanTo3Decimals(RenderValue(Lookup(metrics', name)),
                               Lookup(metrics', name).value)

\* After clear() every Loss accumulator is empty and renders as placeholder.
LossClearedTo(placeholder) ==
    Clear => \A i \in LossMetrics(metrics') :
                /\ metrics'[i].value = <<>>
                /\ RenderValue(metrics'[i]) = placeholder

\* C1 (as stated): update on a Loss metric is additive and renders the mean
\* of the values to 3 decimals; after clear() the accumulator is empty and
\* the metric renders as "-".
C1_LossAdditiveDashPlaceholder ==
    [][LossUpdateIsAdditive /\ LossClearedTo("-")]_vars

\* C1 (amended): update on a Loss metric is additive and renders the mean
\* of the values to 3 decimals; after clear() the accumulator is empty and
\* the metric renders as " - ", a dash between two spaces.
C1_LossAdditiveSpacedPlaceholder ==
    [][LossUpdateIsAdditive /\ LossClearedTo(" - ")]_vars

\* C1 witness: 2 then 4 were pushed into the Loss metric "loss", which
\* renders "3.000".
C1_Witness ==
    /\ lastOp = Op("update", "loss")
    /\ "loss" \in Registered(metrics)
    /\ Lookup(metrics, "loss").mtype = Loss
    /\ Lookup(metrics, "loss").value = <<2, 4>>
    /\ RenderValue(Lookup(metrics, "loss")) = "3.000"

\* C3: every call of sample_real_batch returns a batch; none fails with the
\* exhaustion of the data source, the enumeration restarting after the last
\* batch.
C3_EveryCallReturnsBatch ==
    ncalls >= 1 => (batch.raised = "" /\ batch.value # None)

\* C4: in both output directories no file of index >= n_samples is ever
\* written, and when the loop has ended the indices written are exactly
\* 0..n_samples-1, each once.
C4_ExactlyRequestedFiles ==
    /\ \A i \in DOMAIN geo_dir : i < n_samples
    /\ \A i \in DOMAIN color_dir : i < n_samples
    /\ MainDone =>
          /\ DOMAIN geo_dir = 0..(n_samples - 1)
          /\ DOMAIN color_dir = 0..(n_samples - 1)
          /\ \A i \in 0..(n_samples - 1) : geo_dir[i] = 1 /\ color_dir[i] = 1

\* A metric has data: its scalar is present, or its accumulator is not empty.
HasData(m) ==
    IF m.mtype = Loss THEN Len(m.value) # 0 ELSE m.value # None

\* The fraction f is the current value of the metric m: its scalar, the mean
\* of its accumulator, or its elapsed seconds.
IsOwnValue(f, m) ==
    IF m.mtype = Loss THEN f[1] * Len(m.value) = SumSeq(m.value) * f[2]
    ELSE IF m.mtype = Time THEN f[1] * TicksPerSecond = m.value[1] * f[2]
    ELSE f[1] = m.value[1] * f[2]

ValidXAxis(ms, x) ==
    x \in Registered(ms) /\ Lookup(ms, x).mtype \in {Integer, Float}

\* C2: after tf_log_scalars(x) with a valid x, every mirrored metric that has
\* data got exactly one scalar under its name, carrying its own current
\* value at step = value of x, and no other metric got any.  The scalar of a
\* Time metric is always present; a mirrored Time metric is also allowed to
\* get no scalar, should it not count as having data.
C2_PublishEmitsOwnValues ==
    (lastOp.op = "tf_log_scalars" /\ ValidXAxis(metrics, lastOp.name)) =>
        \A i \in 1..Len(metrics) :
            LET m == metrics[i]
                mine == {j \in 1..Len(emitted) : emitted[j].tag = m.name}
            IN  IF m.log_to_tensorboard /\ HasData(m)
                THEN /\ Cardinality(mine) = 1 \/ (m.mtype = Time /\ mine = {})
                     /\ \A j \in mine :
                           /\ IsOwnValue(emitted[j].value, m)
                           /\ emitted[j].step = Lookup(metrics, lastOp.name).value
                ELSE mine = {}

\* The registry is in descending order of priority.
DescendingPriority(ms) ==
    \A i, j \in 1..Len(ms) : i < j => ms[i].priority >= ms[j].priority

\* The order in which names are first given to define: the three built-in
\* metrics by __init__, then "loss".
FirstDefined == <<"epoch", "iteration", "elapsed_time", "loss">>

InsertionRank(name) == CHOOSE i \in 1..Len(FirstDefined) : FirstDefined[i] = name

\* C5 (as stated): after every define call the registry is ordered by
\* descending priority, metrics of equal priority in insertion order.  Both
\* readings of "insertion order" are admitted: of two metrics of equal
\* priority, the one behind was first defined later, or is the one the call
\* has just defined.
C5_TiesInInsertionOrder ==
    lastOp.op = "define" =>
        /\ DescendingPriority(metrics)
        /\ \A i, j \in 1..Len(metrics) :
              (i < j /\ metrics[i].priority = metrics[j].priority)
                 => \/ InsertionRank(metrics[i].name) < InsertionRank(metrics[j].name)
                    \/ metrics[j].name = lastOp.name

\* Position of name in the registry before a define call; a name that is
\* not registered yet counts as behind every registered one.
RankBefore(ms, name) ==
    IF name \in Registered(ms) THEN IndexOf(ms, name) ELSE Len(ms) + 1

\* C5 (amended): after every define call the registry is ordered by
\* descending priority, and metrics of equal priority are in the order they
\* had in the registry before the call, a re-defined name at the position it
\* held and a new name behind all others.
C5_TiesKeepRegistryOrder ==
    [][/\ DescendingPriority(metrics')
       /\ lastOp'.op = "define" =>
             \A i, j \in 1..Len(metrics') :
                (i < j /\ metrics'[i].priority = metrics'[j].priority)
                   => RankBefore(metrics, metrics'[i].name)
                        < RankBefore(metrics, metrics'[j].name)]_vars

\* C5 witness: "loss", defined after "iteration", was re-defined with the
\* priority of "iteration" and stands in front of it.
C5_Witness ==
    /\ lastOp = Op("define", "loss")
    /\ "loss" \in Registered(metrics)
    /\ Lookup(metrics, "loss").priority = Lookup(metrics, "iteration").priority
    /\ IndexOf(metrics, "loss") < IndexOf(metrics, "iteration")

TypeOf(ms, name) == Lookup(ms, name).mtype

\* C6 (as stated): every registered name stays registered and keeps the type
\* tag it has, whatever the call.
C6_TypeNeverChanges ==
    [][\A name \in Registered(metrics) :
          /\ name \in Registered(metrics')
          /\ TypeOf(metrics', name) = TypeOf(metrics, name)]_vars

\* C6 (amended): every registered name stays registered, and keeps its type
\* tag under update, clear, log, print_header and tf_log_scalars; only a
\* define call of that very name can change its type.
C6_TypeChangesOnlyOnRedefine ==
    [][\A name \in Registered(metrics) :
          /\ name \in Registered(metrics')
          /\ TypeOf(metrics', name) # TypeOf(metrics, name)
                => lastOp' = Op("define", name)]_vars

\* C6 witness: the built-in "iteration" has just been re-defined, as the
\* mirrored flag shows, in a registry whose Loss metric "loss" holds values;
\* all four names are registered.
C6_Witness ==
    /\ lastOp = Op("define", "iteration")
    /\ Lookup(metrics, "iteration").log_to_tensorboard
    /\ "loss" \in Registered(metrics)
    /\ TypeOf(metrics, "loss") = Loss
    /\ Len(Lookup(metrics, "loss").value) = 2
    /\ Registered(metrics) = {"epoch", "iteration", "elapsed_time", "loss"}

\* Number of characters of a rendered row of n columns.
RowWidth(n) == 16 * n

\* The header row and the value row of the registry ms have one column per
\* registered metric, and column i of the value row is the rendering of the
\* metric that column i of the header names.
RowsAgree(ms) ==
    /\ Len(metric_keys(ms)) = Len(ms)
    /\ LogStrings(ms) = [i \in 1..Len(ms) |-> RenderValue(Lookup(ms, metric_keys(ms)[i]))]
    /\ Len(RenderHeader(ms)) = RowWidth(Len(ms))
    /\ Len(RenderLine(ms)) = RowWidth(Len(ms))

\* C7: the header row and the value row agree, column by column, for the
\* registry as constructed and for every registry a call leaves behind; the
\* rows handed to the log sink are these rows; and the order of the columns
\* changes in a define call only.
C7_HeaderAndLineAgree ==
    [][/\ lastOp.op = "__init__" => RowsAgree(metrics)
       /\ metrics' # metrics => RowsAgree(metrics')
       /\ lastOp'.op = "print_header" => sink' = <<RenderHeader(metrics')>>
       /\ (lastOp'.op = "log" /\ err' = "") => sink' = <<RenderLine(metrics')>>
       /\ metric_keys(metrics') # metric_keys(metrics) => lastOp'.op = "define"]_vars

\* C7 witness: log has emitted a row for a registry of four metrics in
\* which "loss" stands in front of "iteration".
C7_Witness ==
    /\ lastOp.op = "log"
    /\ err = ""
    /\ Len(sink) = 1
    /\ Len(metrics) = 4
    /\ IndexOf(metrics, "loss") < IndexOf(metrics, "iteration")
    /\ Lookup(metrics, "iteration").value = None

\* C8: define captures the current time as the baseline of a Time metric;
\* update(name, t) on a Time metric stores t minus that baseline and keeps
\* the baseline; clear() leaves Time metrics as they are, resets Integer and
\* Float metrics to absent and Loss accumulators to empty.
C8_TimeIsElapsedSinceDefine ==
    [][/\ \A d \in {a \in DefineArgs : a[2] = Time} :
             Define(d[1], d[2], d[3], d[4])
                => Lookup(metrics', d[1]).params = Some(now)
       /\ \A name \in MetricNames, t \in ValueArgs :
             (/\ Update(name, t)
              /\ name \in Registered(metrics)
              /\ TypeOf(metrics, name) = Time)
             => /\ Lookup(metrics', name).value
                      = Some(t - Lookup(metrics, name).params[1])
                /\ Lookup(metrics', name).params = Lookup(metrics, name).params
       /\ Clear =>
             /\ Len(metrics') = Len(metrics)
             /\ \A i \in 1..Len(metrics) :
                   IF metrics[i].mtype = Time THEN metrics'[i] = metrics[i]
                   ELSE IF metrics[i].mtype = Loss THEN metrics'[i].value = <<>>
                   ELSE metrics'[i].value = None]_vars

\* C8 witness: clear() has run on a registry in which the Time metric
\* "loss", defined at time 1, holds 4 - 1 from an update with 4.
C8_Witness ==
    /\ lastOp.op = "clear"
    /\ "loss" \in Registered(metrics)
    /\ TypeOf(metrics, "loss") = Time
    /\ Lookup(metrics, "loss").params = Some(1)
    /\ Lookup(metrics, "loss").value = Some(3)

\* C9: tf_log_scalars(x) with x not registered, or registered with a type
\* other than Integer and Float, raises, adds no scalar and changes no
\* metric.
C9_InvalidXAxisEmitsNothing ==
    [][\A x \in XAxisArgs :
          (TfLogScalars(x) /\ ~ValidXAxis(metrics, x))
             => /\ err' \in {"Exception: No such metric", "Exception: Invalid metric type"}
                /\ emitted' = <<>>
                /\ metrics' = metrics]_vars

\* C9 witness: tf_log_scalars("loss") has failed on the type of "loss", a
\* mirrored Loss metric that has data.
C9_Witness ==
    /\ lastOp = Op("tf_log_scalars", "loss")
    /\ err = "Exception: Invalid metric type"
    /\ "loss" \in Registered(metrics)
    /\ TypeOf(metrics, "loss") = Loss
    /\ Lookup(metrics, "loss").log_to_tensorboard
    /\ Lookup(metrics, "loss").value # <<>>

\* C10: update(name, value) with a name that is not registered raises
\* KeyError and leaves the registry as it was.
C10_UnknownNameLeavesRegistry ==
    [][\A name \in MetricNames, value \in ValueArgs :
          (Update(name, value) /\ name \notin Registered(metrics))
             => /\ err' = "KeyError"
                /\ metrics' = metrics
                /\ name \notin Registered(metrics')]_vars

\* C10 witness: update("loss", ...) has raised KeyError on a registry whose
\* "iteration" holds a value.
C10_Witness ==
    /\ lastOp = Op("update", "loss")
    /\ err = "KeyError"
    /\ "loss" \notin Registered(metrics)
    /\ Lookup(metrics, "iteration").value # None

(***************************************************************************)
(* C11: parallel flow-color conversion and parallel video writes keep the  *)
(* input order.  Once Parallel has returned, whatever the order in which   *)
(* the workers finished: for the conversion, position i of the returned    *)
(* list holds the color video of input i; for the writes, the file named   *)
(* after offset + i holds video i, and no other file was written.          *)
(***************************************************************************)
C11_OrderPreserved ==
    returned # None =>
        \A p \in DOMAIN tasks :
            IF tasks[p].fn = "visualize_optical_flow"
            THEN returned[1][p] = [rgb |-> p - 1]
            ELSE /\ [path |-> Mp4Name(offset + (p - 1)), video |-> [video |-> p - 1]] \in written
                 /\ Cardinality(written) = Len(tasks)

\* The conversion of a batch of three or more has returned, the worker of
\* the last input having finished first and the worker of the first last.
C11_Witness ==
    /\ returned # None
    /\ Len(tasks) >= 3
    /\ tasks[1].fn = "visualize_optical_flow"
    /\ completed[1] = Len(tasks)
    /\ completed[Len(tasks)] = 1

(***************************************************************************)
(* C12: make_video_grid is a bijection on pixel content.  When N equals    *)
(* rows * cols the call returns an array of axes (1, C, T, rows * H,       *)
(* cols * W) in which pixel (c, t, h, w) of video n appears exactly once,  *)
(* at (c, t, (n div cols) * H + h, (n mod cols) * W + w) of the one grid   *)
(* video; otherwise the call raises AssertionError and returns no grid.    *)
(***************************************************************************)
C12_GridIsBijection ==
    grid # None =>
        LET N == videos.shape[1]
            C == videos.shape[2]
            T == videos.shape[3]
            H == videos.shape[4]
            W == videos.shape[5]
            out == grid[1].value
        IN  IF N = rows * cols
            THEN /\ grid[1].raised = ""
                 /\ out # None
                 /\ out[1].shape = <<1, C, T, rows * H, cols * W>>
                 /\ \A n \in 0..(N - 1), c \in 0..(C - 1), t \in 0..(T - 1),
                       h \in 0..(H - 1), w \in 0..(W - 1) :
                       /\ Item(out[1], <<0, c, t, (n \div cols) * H + h, (n % cols) * W + w>>)
                            = Item(videos, <<n, c, t, h, w>>)
                       /\ Cardinality({f \in DOMAIN out[1].flat :
                              out[1].flat[f] = Item(videos, <<n, c, t, h, w>>)}) = 1
            ELSE /\ grid[1].raised = "AssertionError"
                 /\ out = None

\* A grid of two rows and two columns of videos of more than one channel,
\* frame, line and column has been returned.
C12_Witness ==
    /\ grid # None
    /\ grid[1].raised = ""
    /\ rows = 2
    /\ cols = 2
    /\ videos.shape = <<4, 2, 2, 2, 2>>

(***************************************************************************)
(* C13: every iteration of the training loop runs the generator phase,     *)
(* the discriminator phase and the logging phase, and the loop goes on to  *)
(* the next iteration: train never ends with an exception, and whenever    *)
(* the loop is back at the generator phase after k iterations, each of     *)
(* loss_gen, loss_idis and loss_vdis is registered in the logger and has   *)
(* received k values, one per iteration.                                   *)
(***************************************************************************)
C13_IterationLogsAndAdvances ==
    /\ train_raised = ""
    /\ (phase = "generator" /\ iterations >= 1) =>
          \A i \in DOMAIN LossNames :
              /\ LossNames[i] \in Registered(metrics)
              /\ Len(Lookup(metrics, LossNames[i]).value) = iterations

(***************************************************************************)
(* C14: log(x) updates the elapsed-time metric to now, then publishes to   *)
(* the dashboard with x as step metric, then emits exactly one rendered    *)
(* line.  After log(x) the elapsed-time metric holds now minus its         *)
(* baseline; with x registered and Integer or Float the call hands the     *)
(* sink exactly one line, which is the row of the registry with this       *)
(* elapsed time in the elapsed-time column; with any other x publishing    *)
(* fails and the call hands the sink nothing.                              *)
(***************************************************************************)
C14_LogUpdatesPublishesEmits ==
    [][\A x \in XAxisArgs :
          Log(x) =>
              LET i == IndexOf(metrics, "elapsed_time")
                  elapsed == now - metrics[i].params[1]
                  row == [LogStrings(metrics) EXCEPT
                             ![i] = TimedeltaStr(IntSeconds(elapsed))]
              IN  /\ metrics'[i].value = Some(elapsed)
                  /\ IF ValidXAxis(metrics, x)
                     THEN sink' = <<JoinColumns(row)>>
                     ELSE sink' = <<>> /\ err' # ""]_vars

====
